---------------------------- MODULE Spec2Model ----------------------------
(***************************************************************************)
(* A model of bob (src/src/main.rs): the iced application state `App`, its *)
(* message handler `App::update`, the two-phase executor spawned by        *)
(* `App::start_task_process`, the manifest reconciliation of               *)
(* `App::refresh_project_tasks` and the file-watcher subscription.         *)
(*                                                                         *)
(* Indices are 0-based as in the source; Get/Set translate to TLA+'s       *)
(* 1-based sequences.  Option<T> is a sequence of length 0 (None) or 1     *)
(* (Some(x)).  A line of text is a tuple of strings (its words).           *)
(***************************************************************************)
EXTENDS Integers, Sequences, FiniteSets, TLC

VARIABLES
    projects,          \* App.projects: Vec<Project>
    selected_task,     \* App.selected_task: Option<(usize, usize)>
    dragging_project,  \* App.dragging_project: Option<usize>
    processes,         \* App.processes: the keys of the HashMap
    bun_path,          \* App.bun_path: Option<PathBuf>
    bun_downloading,   \* App.bun_downloading
    execs,             \* the spawned output_handle tasks not yet reported
    downloads,         \* download_bun futures in flight
    bun_cached,        \* whether the cached bun executable exists on disk
    fs,                \* directory -> state of its package.json
    watcher,           \* FileWatcherState of the subscription stream
    watch_paths,       \* the project list the subscription stream captured
    watched,           \* directories the debouncer watches
    started,           \* number of executors spawned so far
    last               \* the last step taken (history)

vars == <<projects, selected_task, dragging_project, processes, bun_path,
          bun_downloading, execs, downloads, bun_cached, fs, watcher,
          watch_paths, watched, started, last>>

appvars == <<projects, selected_task, dragging_project, processes, bun_path,
             bun_downloading>>

-----------------------------------------------------------------------------
(* Bounds of the model *)

MaxProjects == 3     \* projects in the list
MaxTasks == 2        \* task positions a message can name
MaxStarts == 2       \* executors spawned in one run of the application
MaxExecLines == 4    \* lines the two child processes of one invocation write

Dirs == {"d1"}
Tokens == {"x", "y"}

-----------------------------------------------------------------------------
(* Option, indexing *)

None == <<>>
Some(x) == <<x>>
IsSome(o) == o # <<>>
Unwrap(o) == o[1]

Min(S) == CHOOSE x \in S : \A y \in S : x <= y
Max(S) == CHOOSE x \in S : \A y \in S : x >= y

\* Vec::remove(i) and Vec::insert(i, x), 0-based
VecRemove(s, i) == [k \in 1..(Len(s) - 1) |-> IF k <= i THEN s[k] ELSE s[k + 1]]
VecInsert(s, i, x) ==
    [k \in 1..(Len(s) + 1) |->
        IF k <= i THEN s[k] ELSE IF k = i + 1 THEN x ELSE s[k - 1]]

RECURSIVE SeqsUpTo(_, _)
SeqsUpTo(S, n) ==
    IF n = 0 THEN {<<>>}
    ELSE LET shorter == SeqsUpTo(S, n - 1)
         IN  shorter \cup {Append(s, x) : s \in shorter, x \in S}

-----------------------------------------------------------------------------
(* Log lines: the format! strings of the source *)

ReadyLine(name) == <<"[INFO] Task", name, "ready">>
CreatedLine == <<"[INFO] Task created">>
StartingLine(name) == <<"[INFO] Starting task", name, "...">>
StoppedLine(name) == <<"[INFO] Task", name, "stopped">>
StatusLine(name, success) ==
    <<"[INFO] Task", name, IF success THEN "completed successfully" ELSE "failed">>
RunningInstallLine == <<"[INFO] Running bun install...">>
DepsInstalledLine == <<"[INFO] Dependencies installed successfully">>
InstallErrorsLine == <<"[WARN] bun install completed with errors, continuing anyway...">>
InstallSpawnFailedLine == <<"[WARN] Failed to run bun install:", "spawn error">>
RunningTaskLine(name) == <<"[INFO] Running task", name, "...">>
FailedToStartLine == <<"[ERROR] Failed to start:", "spawn error">>
StderrLine(line) == <<"[STDERR]">> \o line

-----------------------------------------------------------------------------
(* What a child process wrote to one pipe: lines, each decodable as UTF-8  *)
(* or not.  `lines.next_line()` yields Ok(Some(line)) for a decodable      *)
(* line, Err for an undecodable one and Ok(None) at end of input.          *)

WrittenLines ==
    {[text |-> <<tok>>, utf8 |-> TRUE] : tok \in Tokens}
    \cup {[text |-> <<"x">>, utf8 |-> FALSE]}
Streams(n) == SeqsUpTo(WrittenLines, n)

\* while let Ok(Some(line)) = lines.next_line().await { captured.push(line) }
RECURSIVE DrainLoop(_, _)
DrainLoop(stream, captured) ==
    IF stream = <<>> THEN captured
    ELSE IF ~Head(stream).utf8 THEN captured
    ELSE DrainLoop(Tail(stream), Append(captured, Head(stream).text))

DrainStdout(stream) == DrainLoop(stream, <<>>)

\* the run phase's stderr loop pushes format!("[STDERR] {}", line)
RECURSIVE DrainStderrTaggedLoop(_, _)
DrainStderrTaggedLoop(stream, captured) ==
    IF stream = <<>> THEN captured
    ELSE IF ~Head(stream).utf8 THEN captured
    ELSE DrainStderrTaggedLoop(Tail(stream),
                               Append(captured, StderrLine(Head(stream).text)))

DrainStderrTagged(stream) == DrainStderrTaggedLoop(stream, <<>>)

\* What one phase's child process does: whether Command::spawn succeeded,
\* what it wrote to its two pipes and what child.wait() returned.
ExitStatuses == {"success", "failure", "wait_error"}
NotSpawned == [spawned |-> FALSE, stdout |-> <<>>, stderr |-> <<>>, exit |-> "wait_error"]
\* the outcomes in which the child writes at most n lines
PhaseOutcomes(n) ==
    {NotSpawned} \cup
    UNION {[spawned : {TRUE}, stdout : {out}, stderr : Streams(n - Len(out)),
            exit : ExitStatuses] : out \in Streams(n)}
LinesWritten(o) == Len(o.stdout) + Len(o.stderr)

\* status.map(|s| s.success()).unwrap_or(false)
StatusSuccess(o) == o.exit = "success"

-----------------------------------------------------------------------------
(* The filesystem: for each directory, the state of its package.json *)

NoDir == [kind |-> "nodir"]
NoManifest == [kind |-> "missing"]
Unparsable == [kind |-> "invalid"]
Manifest(name, scripts) == [kind |-> "json", name |-> name, scripts |-> scripts]

ScriptLists == {<<"a">>, <<"b">>, <<"a", "b">>, <<"b", "c">>}
Manifests ==
    {NoDir, NoManifest, Unparsable, Manifest(Some("pkg"), None)}
    \cup {Manifest(Some("pkg"), Some(sl)) : sl \in ScriptLists}

Paths == Dirs \cup {""}

\* Path::new(&project.path).join("package.json").exists()
PackageJsonExists(path) == fs[path].kind \in {"invalid", "json"}
\* PathBuf::from(project_path).exists()
DirExists(path) == fs[path].kind # "nodir"
\* read_to_string and serde_json::from_str both Ok
Parsed(path) == IF fs[path].kind = "json" THEN Some(fs[path]) ELSE None

-----------------------------------------------------------------------------
(* Projects and tasks *)

Task(name, running, logs, failed) ==
    [name |-> name, running |-> running, logs |-> logs, failed |-> failed]

Project(name, path, tasks, hidden) ==
    [name |-> name, path |-> path, tasks |-> tasks, hidden |-> hidden]

\* projects.get(p) and project.tasks.get(t), 0-based
HasProject(p) == p < Len(projects)
HasTask(p, t) == HasProject(p) /\ t < Len(projects[p + 1].tasks)
TaskAt(p, t) == projects[p + 1].tasks[t + 1]

\* the task list handle_import builds from the manifest's scripts
ImportedTasks(scripts) ==
    IF IsSome(scripts)
    THEN [k \in 1..Len(Unwrap(scripts)) |->
            Task(Unwrap(scripts)[k], FALSE, <<ReadyLine(Unwrap(scripts)[k])>>, FALSE)]
    ELSE <<>>

-----------------------------------------------------------------------------
(* Pure parts of the handlers *)

\* App::has_running_tasks
has_running_tasks(proj_idx) == \E key \in processes : key[1] = proj_idx

\* a refresh that keeps the flags it finds: not what the source does, and
\* C20_VisibilityFollowsManifest tells the two apart
visibility_retained(projs) == projs

\* App::refresh_project_visibility
refresh_project_visibility(projs) ==
    [i \in 1..Len(projs) |->
        [projs[i] EXCEPT !.hidden = ~PackageJsonExists(projs[i].path)]]

\* a reconciliation that regenerates every task afresh, carrying nothing over:
\* not what the source does, and C9_ReconcileByName tells the two apart
RegeneratedTaskAfresh(old, name) == Task(name, FALSE, <<ReadyLine(name)>>, FALSE)

\* the closure of refresh_project_tasks that builds one ProjectTask per script
\* name; existing_tasks is a HashMap collected from the prior list, so of two
\* prior tasks with one name the later one's state is kept
RegeneratedTask(old, name) ==
    LET same == {j \in 1..Len(old) : old[j].name = name}
    IN  IF same # {}
        THEN Task(name, old[Max(same)].running, old[Max(same)].logs, FALSE)
        ELSE Task(name, FALSE, <<ReadyLine(name)>>, FALSE)

RegeneratedTasks(old, scripts) ==
    [k \in 1..Len(scripts) |-> RegeneratedTask(old, scripts[k])]

\* a reconciliation that empties the task list of a project whose manifest
\* cannot be read or parsed: not what the source does, and
\* C28_UnparsableManifestKeepsTasks tells the two apart
refresh_project_tasks_clearing(projs, project_path) ==
    LET hits == {i \in 1..Len(projs) : projs[i].path = project_path}
    IN  IF hits = {} THEN projs
        ELSE IF ~IsSome(Parsed(project_path))
        THEN [projs EXCEPT ![Min(hits)].tasks = <<>>]
        ELSE LET i == Min(hits)
                 scripts == Unwrap(Parsed(project_path)).scripts
             IN  [projs EXCEPT ![i] =
                    [@ EXCEPT !.tasks = IF IsSome(scripts)
                                        THEN RegeneratedTasks(projs[i].tasks,
                                                              Unwrap(scripts))
                                        ELSE projs[i].tasks,
                              !.hidden = FALSE]]

\* a reconciliation of every project whose path is project_path, as the loop
\* without its break would do: not what the source does, and
\* C31_ReconcileFrame tells the two apart
refresh_project_tasks_every_match(projs, project_path) ==
    IF ~IsSome(Parsed(project_path)) THEN projs
    ELSE LET scripts == Unwrap(Parsed(project_path)).scripts
         IN  [i \in 1..Len(projs) |->
                IF projs[i].path = project_path
                THEN [projs[i] EXCEPT
                        !.tasks = IF IsSome(scripts)
                                  THEN RegeneratedTasks(projs[i].tasks, Unwrap(scripts))
                                  ELSE projs[i].tasks,
                        !.hidden = FALSE]
                ELSE projs[i]]

\* App::refresh_project_tasks: the first project whose path is project_path
refresh_project_tasks(projs, project_path) ==
    LET hits == {i \in 1..Len(projs) : projs[i].path = project_path}
    IN  IF hits = {} \/ ~IsSome(Parsed(project_path)) THEN projs
        ELSE LET i == Min(hits)
                 scripts == Unwrap(Parsed(project_path)).scripts
             IN  [projs EXCEPT ![i] =
                    [@ EXCEPT !.tasks = IF IsSome(scripts)
                                        THEN RegeneratedTasks(projs[i].tasks,
                                                              Unwrap(scripts))
                                        ELSE projs[i].tasks,
                              !.hidden = FALSE]]

\* a remapping that follows the moved project only: not what the source
\* does, and C25_SelectionFollowsProject tells the two apart
update_selected_moved_only(sel, from, to) ==
    IF IsSome(sel) /\ Unwrap(sel)[1] = from
    THEN Some(<<to, Unwrap(sel)[2]>>)
    ELSE sel

\* a remapping that shifts only the indices strictly between from and to: not
\* what the source does, and C8_ReorderRemapsSelection tells the two apart
update_selected_strictly_between(sel, from, to) ==
    IF IsSome(sel)
    THEN LET idx == Unwrap(sel)[1]
             task_idx == Unwrap(sel)[2]
         IN  Some(<<IF idx = from THEN to
                     ELSE IF from < to /\ idx > from /\ idx < to THEN idx - 1
                     ELSE IF from > to /\ idx > to /\ idx < from THEN idx + 1
                     ELSE idx,
                    task_idx>>)
    ELSE sel

\* App::update_selected_after_reorder
update_selected_after_reorder(sel, from, to) ==
    IF IsSome(sel)
    THEN LET idx == Unwrap(sel)[1]
             task_idx == Unwrap(sel)[2]
         IN  Some(<<IF idx = from THEN to
                     ELSE IF from < to /\ idx > from /\ idx <= to THEN idx - 1
                     ELSE IF from > to /\ idx >= to /\ idx < from THEN idx + 1
                     ELSE idx,
                    task_idx>>)
    ELSE sel

\* a drag reference left on the index the project was taken from: not what
\* the source does, and C26_DragFollowsProject tells the two apart
dragging_left_behind(from, to) == Some(from)

\* Message::ProjectHovered: self.dragging_project = Some(to_idx)
dragging_after_reorder(from, to) == Some(to)

\* live invocations whose project index follows the reorder as the selection
\* does: not what the source does, and C29_CompletionIsPositional tells the
\* two apart
executions_remapped(es, from, to) ==
    {[e EXCEPT !.proj_idx =
          IF @ = from THEN to
          ELSE IF from < to /\ @ > from /\ @ <= to THEN @ - 1
          ELSE IF from > to /\ @ >= to /\ @ < from THEN @ + 1
          ELSE @] : e \in es}

\* Message::ProjectHovered: the reorder leaves the spawned futures, which
\* captured (proj_idx, task_idx), as they are
executions_after_reorder(es, from, to) == es

\* projects.remove(from_idx) then projects.insert(to_idx, project)
MoveProject(projs, from, to) == VecInsert(VecRemove(projs, from), to, projs[from + 1])

\* a removal that leaves the selection as it is: not what the source does,
\* and C27_RemoveRemapsSelection tells the two apart
SelectionKeptAfterRemove(sel, idx) == sel

\* the selection update of Message::RemoveProject
SelectionAfterRemove(sel, idx) ==
    IF IsSome(sel)
    THEN IF Unwrap(sel)[1] = idx THEN None
         ELSE IF Unwrap(sel)[1] > idx
              THEN Some(<<Unwrap(sel)[1] - 1, Unwrap(sel)[2]>>)
              ELSE sel
    ELSE sel

\* start_task_process: task.running = true; logs.clear(); logs.push(...)
StartedTask(task) ==
    [task EXCEPT !.running = TRUE, !.logs = <<StartingLine(task.name)>>]

\* stop_task_process: task.running = false; logs.push(...)
StoppedTask(task) ==
    [task EXCEPT !.running = FALSE, !.logs = Append(@, StoppedLine(task.name))]

\* a completion that records the output but no terminal status line: not what
\* the source does, and C11_CompletionRecordsOutcome tells the two apart
CompletedTaskWithoutStatus(task, success, output_lines) ==
    [task EXCEPT !.running = FALSE,
                 !.failed = ~success,
                 !.logs = @ \o output_lines]

\* Message::TaskCompleted
CompletedTask(task, success, output_lines) ==
    [task EXCEPT !.running = FALSE,
                 !.failed = ~success,
                 !.logs = (@ \o output_lines) \o <<StatusLine(task.name, success)>>]

\* projects with the task at (p, t) replaced, when there is one
WithTask(projs, p, t, task) == [projs EXCEPT ![p + 1].tasks[t + 1] = task]

-----------------------------------------------------------------------------
(* The two-phase executor: the future spawned as output_handle *)

\* the state captured by the async move block, before its first step; child
\* is the process of the phase under way, where a phase is followed step by
\* step (PipeSpec)
NewExec(id, proj_idx, task_idx, task_name) ==
    [id |-> id, proj_idx |-> proj_idx, task_idx |-> task_idx,
     task_name |-> task_name, phase |-> "install", output_lines |-> <<>>,
     success |-> FALSE, install |-> None, run |-> None, stop_issued |-> FALSE,
     child |-> None]

\* an install phase that drains stderr before stdout: not what the source
\* does, and C6_LogIsStreamsBetweenMarkers tells the two apart
install_phase_stderr_first(e, o) ==
    [e EXCEPT
        !.output_lines =
            <<RunningInstallLine>> \o
            (IF o.spawned
             THEN (DrainStdout(o.stderr) \o DrainStdout(o.stdout)) \o
                  <<IF StatusSuccess(o) THEN DepsInstalledLine ELSE InstallErrorsLine>>
             ELSE <<InstallSpawnFailedLine>>),
        !.phase = "run",
        !.install = Some(o)]

\* a run phase whose result also needs the install phase to have succeeded:
\* not what the source does, and C7_FailedFollowsRunOnly tells the two apart
run_phase_gated_by_install(e, o) ==
    [e EXCEPT
        !.output_lines =
            (@ \o <<RunningTaskLine(e.task_name)>>) \o
            (IF o.spawned
             THEN DrainStdout(o.stdout) \o DrainStderrTagged(o.stderr)
             ELSE <<FailedToStartLine>>),
        !.success = IF o.spawned
                    THEN StatusSuccess(o) /\ Unwrap(e.install).spawned
                                          /\ StatusSuccess(Unwrap(e.install))
                    ELSE FALSE,
        !.phase = "done",
        !.run = Some(o)]

\* an install phase whose spawn failure ends the invocation: not what the
\* source does, and C22_SpawnFailures tells the two apart
install_phase_aborting(e, o) ==
    [e EXCEPT
        !.output_lines =
            <<RunningInstallLine>> \o
            (IF o.spawned
             THEN (DrainStdout(o.stdout) \o DrainStdout(o.stderr)) \o
                  <<IF StatusSuccess(o) THEN DepsInstalledLine ELSE InstallErrorsLine>>
             ELSE <<InstallSpawnFailedLine>>),
        !.phase = IF o.spawned THEN "run" ELSE "done",
        !.install = Some(o)]

\* Step 1: bun install
install_phase(e, o) ==
    [e EXCEPT
        !.output_lines =
            <<RunningInstallLine>> \o
            (IF o.spawned
             THEN (DrainStdout(o.stdout) \o DrainStdout(o.stderr)) \o
                  <<IF StatusSuccess(o) THEN DepsInstalledLine ELSE InstallErrorsLine>>
             ELSE <<InstallSpawnFailedLine>>),
        !.phase = "run",
        !.install = Some(o)]

\* Step 2: bun run <task>
run_phase(e, o) ==
    [e EXCEPT
        !.output_lines =
            (@ \o <<RunningTaskLine(e.task_name)>>) \o
            (IF o.spawned
             THEN DrainStdout(o.stdout) \o DrainStderrTagged(o.stderr)
             ELSE <<FailedToStartLine>>),
        !.success = IF o.spawned THEN StatusSuccess(o) ELSE FALSE,
        !.phase = "done",
        !.run = Some(o)]

-----------------------------------------------------------------------------
(* Construction: impl Default for App *)

\* App::get_bun_path
get_bun_path(cached) == IF cached THEN Some("bun") ELSE None

\* a project as confy::load returns it: running and logs are #[serde(skip)]
LoadedProject(name, path, names) ==
    Project(name, path, [k \in 1..Len(names) |-> Task(names[k], FALSE, <<>>, FALSE)], FALSE)

\* the stored configurations and the directory contents the application
\* starts from
Configs ==
    {<<LoadedProject("pkg", "d1", <<"a">>)>>,
     <<LoadedProject("pkg", "d1", <<"a">>), LoadedProject("scratch", "", <<"Task 1">>)>>}

InitFs ==
    {[p \in Paths |-> IF p = "" THEN NoManifest
                      ELSE Manifest(Some("pkg"), Some(<<"b">>))]}

InitWith(config, files, cached) ==
    /\ fs = files
    /\ projects = [i \in 1..Len(config) |->
                     [config[i] EXCEPT !.hidden = ~(files[config[i].path].kind
                                                    \in {"invalid", "json"})]]
    /\ selected_task = None
    /\ dragging_project = None
    /\ processes = {}
    /\ bun_cached = cached
    /\ bun_path = get_bun_path(cached)
    /\ bun_downloading = FALSE
    /\ execs = {}
    /\ downloads = 0
    /\ watcher = "Starting"
    /\ watch_paths = [i \in 1..Len(config) |-> config[i].path]
    /\ watched = {}
    /\ started = 0
    /\ last = [op |-> "Init"]

Init == \E config \in Configs, files \in InitFs, cached \in BOOLEAN :
            InitWith(config, files, cached)

-----------------------------------------------------------------------------
(* Messages handled by App::update, and the futures that produce them.     *)
(* `last` records the last step that changed the state, and every         *)
(* FileChanged; a message whose handler changes nothing leaves every       *)
(* variable unchanged.                                                     *)

ProjIdx == 0..(MaxProjects - 1)
TaskIdx == 0..(MaxTasks - 1)

\* the invocations spawned for (proj_idx, task_idx) and not yet reported
LiveAt(proj_idx, task_idx) ==
    {e \in execs : e.proj_idx = proj_idx /\ e.task_idx = task_idx}

IsRunning(proj_idx, task_idx) ==
    HasTask(proj_idx, task_idx) /\ TaskAt(proj_idx, task_idx).running

\* a supervisor that starts a download on every start request made without
\* the binary: not what the source does, and C15_SingleAcquisition tells the
\* two apart
download_always == TRUE

\* start_task_process: if !self.bun_downloading
download_not_in_flight == ~bun_downloading

\* Message::StartTask -> App::start_task_process
StartTask(proj_idx, task_idx) ==
    /\ IF ~IsSome(bun_path)
       THEN IF download_not_in_flight
            THEN /\ bun_downloading' = TRUE
                 /\ downloads' = downloads + 1
                 /\ last' = [op |-> "StartTask", proj_idx |-> proj_idx,
                             task_idx |-> task_idx, spawned |-> 0,
                             was_running |-> IsRunning(proj_idx, task_idx)]
                 /\ UNCHANGED <<projects, execs, started>>
            ELSE UNCHANGED <<projects, execs, started, bun_downloading,
                             downloads, last>>
       ELSE IF ~HasTask(proj_idx, task_idx)
       THEN UNCHANGED <<projects, execs, started, bun_downloading, downloads, last>>
       ELSE /\ started < MaxStarts
            /\ projects' = WithTask(projects, proj_idx, task_idx,
                                    StartedTask(TaskAt(proj_idx, task_idx)))
            /\ execs' = execs \cup {NewExec(started + 1, proj_idx, task_idx,
                                            TaskAt(proj_idx, task_idx).name)}
            /\ started' = started + 1
            /\ last' = [op |-> "StartTask", proj_idx |-> proj_idx,
                        task_idx |-> task_idx, spawned |-> started + 1,
                        was_running |-> TaskAt(proj_idx, task_idx).running]
            /\ UNCHANGED <<bun_downloading, downloads>>
    /\ UNCHANGED <<selected_task, dragging_project, processes, bun_path,
                   bun_cached, fs, watcher, watch_paths, watched>>

\* a stop that acts whether or not a handle is held: not what the source
\* does, and C19_StopWhileIdleIsNoOp tells the two apart
handle_assumed(proj_idx, task_idx) == TRUE

\* stop_task_process: if let Some(handle) = self.processes.remove(&(..))
handle_held(proj_idx, task_idx) == <<proj_idx, task_idx>> \in processes

\* Message::StopTask -> App::stop_task_process; the kill future's
\* Message::RefreshProjects is handled in the same step.  stop_issued
\* remembers, for the invocations live at that position, that a stop came.
StopTask(proj_idx, task_idx) ==
    /\ IF handle_held(proj_idx, task_idx)
       THEN /\ processes' = processes \ {<<proj_idx, task_idx>>}
            /\ projects' = refresh_project_visibility(
                             IF HasTask(proj_idx, task_idx)
                             THEN WithTask(projects, proj_idx, task_idx,
                                           StoppedTask(TaskAt(proj_idx, task_idx)))
                             ELSE projects)
            /\ last' = [op |-> "StopTask", proj_idx |-> proj_idx,
                        task_idx |-> task_idx]
       ELSE UNCHANGED <<processes, projects, last>>
    /\ execs' = {IF e \in LiveAt(proj_idx, task_idx)
                 THEN [e EXCEPT !.stop_issued = TRUE]
                 ELSE e : e \in execs}
    /\ UNCHANGED <<selected_task, dragging_project, bun_path, bun_downloading,
                   downloads, bun_cached, fs, watcher, watch_paths, watched, started>>

\* one step of the spawned executor: bun install
ExecInstall(e, o) ==
    /\ e \in execs /\ e.phase = "install"
    /\ execs' = (execs \ {e}) \cup {install_phase(e, o)}
    /\ UNCHANGED <<appvars, downloads, bun_cached, fs, watcher, watch_paths,
                   watched, started, last>>

\* one step of the spawned executor: bun run <task>
ExecRun(e, o) ==
    /\ e \in execs /\ e.phase = "run"
    /\ execs' = (execs \ {e}) \cup {run_phase(e, o)}
    /\ UNCHANGED <<appvars, downloads, bun_cached, fs, watcher, watch_paths,
                   watched, started, last>>

\* Message::TaskCompleted(proj_idx, task_idx, success, output_lines)
TaskCompleted(e) ==
    /\ e \in execs /\ e.phase = "done"
    /\ processes' = processes \ {<<e.proj_idx, e.task_idx>>}
    /\ projects' = IF HasTask(e.proj_idx, e.task_idx)
                   THEN WithTask(projects, e.proj_idx, e.task_idx,
                                 CompletedTask(TaskAt(e.proj_idx, e.task_idx),
                                               e.success, e.output_lines))
                   ELSE projects
    /\ execs' = execs \ {e}
    /\ last' = [op |-> "TaskCompleted", e |-> e,
                applied |-> HasTask(e.proj_idx, e.task_idx)]
    /\ UNCHANGED <<selected_task, dragging_project, bun_path, bun_downloading,
                   downloads, bun_cached, fs, watcher, watch_paths, watched, started>>

\* how download_bun can end: Ok once the executable is written and made
\* executable; Err before File::create (no cache directory, the request, the
\* archive); Err after File::create (io::copy or set_permissions fails), which
\* leaves a file at the cached path
DownloadResults == {"installed", "failed", "failed_after_create"}

\* the download_bun future ends and Message::BunReady is handled
BunReady(result) ==
    /\ downloads > 0
    /\ downloads' = downloads - 1
    /\ bun_cached' = (bun_cached \/ result \in {"installed", "failed_after_create"})
    /\ bun_path' = get_bun_path(bun_cached')
    /\ bun_downloading' = FALSE
    /\ last' = [op |-> "BunReady", result |-> result]
    /\ UNCHANGED <<projects, selected_task, dragging_project, processes, execs,
                   fs, watcher, watch_paths, watched, started>>

\* Message::CreateProject
CreateProject ==
    /\ Len(projects) < MaxProjects
    /\ projects' = Append(projects,
                     Project("New Project " \o ToString(Len(projects) + 1), "",
                             <<Task("Task 1", FALSE, <<CreatedLine>>, FALSE)>>, TRUE))
    /\ selected_task' = Some(<<Len(projects), 0>>)
    /\ last' = [op |-> "CreateProject"]
    /\ UNCHANGED <<dragging_project, processes, bun_path, bun_downloading, execs,
                   downloads, bun_cached, fs, watcher, watch_paths, watched, started>>

\* what the file dialog can return: nothing, or a file of a directory
Picks == {None} \cup {Some(<<d, f>>) : d \in Dirs, f \in {"package.json", "other.json"}}

\* Message::ImportProjectSelected -> App::handle_import
ImportProjectSelected(pick) ==
    /\ IF IsSome(pick) /\ Unwrap(pick)[2] = "package.json"
          /\ IsSome(Parsed(Unwrap(pick)[1]))
       THEN LET package_json == Unwrap(Parsed(Unwrap(pick)[1]))
            IN  /\ Len(projects) < MaxProjects
                /\ projects' = Append(projects,
                                 Project(IF IsSome(package_json.name)
                                         THEN Unwrap(package_json.name)
                                         ELSE "Unknown Project",
                                         Unwrap(pick)[1],
                                         ImportedTasks(package_json.scripts), FALSE))
                /\ last' = [op |-> "ImportProjectSelected", pick |-> pick]
       ELSE UNCHANGED <<projects, last>>
    /\ UNCHANGED <<selected_task, dragging_project, processes, bun_path,
                   bun_downloading, execs, downloads, bun_cached, fs, watcher,
                   watch_paths, watched, started>>

\* whether some task of the project at idx has running = true
AnyRunning(projs, idx) ==
    idx < Len(projs) /\ \E t \in 1..Len(projs[idx + 1].tasks) :
                            projs[idx + 1].tasks[t].running

\* Message::RemoveProject
RemoveProject(idx) ==
    /\ IF idx < Len(projects) /\ ~has_running_tasks(idx)
       THEN /\ projects' = VecRemove(projects, idx)
            /\ selected_task' = SelectionAfterRemove(selected_task, idx)
            /\ last' = [op |-> "RemoveProject", idx |-> idx]
       ELSE UNCHANGED <<projects, selected_task, last>>
    /\ UNCHANGED <<dragging_project, processes, bun_path, bun_downloading, execs,
                   downloads, bun_cached, fs, watcher, watch_paths, watched, started>>

\* Message::SelectTask
SelectTask(project_idx, task_idx) ==
    /\ selected_task' = Some(<<project_idx, task_idx>>)
    /\ UNCHANGED <<projects, dragging_project, processes, bun_path,
                   bun_downloading, execs, downloads, bun_cached, fs, watcher,
                   watch_paths, watched, started, last>>

\* Message::ProjectDragStart
ProjectDragStart(idx) ==
    /\ dragging_project' = Some(idx)
    /\ UNCHANGED <<projects, selected_task, processes, bun_path, bun_downloading,
                   execs, downloads, bun_cached, fs, watcher, watch_paths,
                   watched, started, last>>

\* Message::ProjectDragEnd
ProjectDragEnd ==
    /\ dragging_project' = None
    /\ UNCHANGED <<projects, selected_task, processes, bun_path, bun_downloading,
                   execs, downloads, bun_cached, fs, watcher, watch_paths,
                   watched, started, last>>

\* Message::ProjectHovered
ProjectHovered(to_idx) ==
    /\ IF IsSome(dragging_project)
          /\ Unwrap(dragging_project) # to_idx
          /\ Unwrap(dragging_project) < Len(projects)
          /\ to_idx < Len(projects)
       THEN /\ projects' = MoveProject(projects, Unwrap(dragging_project), to_idx)
            /\ selected_task' = update_selected_after_reorder(
                                    selected_task, Unwrap(dragging_project), to_idx)
            /\ dragging_project' = dragging_after_reorder(
                                       Unwrap(dragging_project), to_idx)
            /\ execs' = executions_after_reorder(
                            execs, Unwrap(dragging_project), to_idx)
            /\ last' = [op |-> "ProjectHovered", from |-> Unwrap(dragging_project),
                        to |-> to_idx, sel |-> selected_task]
       ELSE UNCHANGED <<projects, selected_task, dragging_project, execs, last>>
    /\ UNCHANGED <<processes, bun_path, bun_downloading, downloads,
                   bun_cached, fs, watcher, watch_paths, watched, started>>

\* Message::FileChanged(path), path = dir/package.json sent by the debouncer
FileChanged(dir) ==
    /\ watcher = "Ready" /\ dir \in watched
    /\ projects' = refresh_project_visibility(refresh_project_tasks(projects, dir))
    /\ last' = [op |-> "FileChanged", dir |-> dir, old |-> projects]
    /\ UNCHANGED <<selected_task, dragging_project, processes, bun_path,
                   bun_downloading, execs, downloads, bun_cached, fs, watcher,
                   watch_paths, watched, started>>

\* file_watcher_subscription, FileWatcherState::Starting: arm the watch or
\* sleep, then Message::RefreshProjects is handled
WatcherStart ==
    /\ watcher = "Starting"
    /\ LET project_paths == {watch_paths[i] : i \in 1..Len(watch_paths)} \ {""}
       IN  IF project_paths # {}
           THEN /\ watched' = {d \in project_paths : DirExists(d)}
                /\ watcher' = "Ready"
           ELSE UNCHANGED <<watched, watcher>>
    /\ projects' = refresh_project_visibility(projects)
    /\ UNCHANGED <<selected_task, dragging_project, processes, bun_path,
                   bun_downloading, execs, downloads, bun_cached, fs,
                   watch_paths, started, last>>

\* the user, or a tool, changes a project directory on disk
FsWrite(dir, m) ==
    /\ fs[dir] # m
    /\ fs' = [fs EXCEPT ![dir] = m]
    /\ last' = [op |-> "FsWrite", dir |-> dir]
    /\ UNCHANGED <<appvars, execs, downloads, bun_cached, watcher, watch_paths,
                   watched, started>>

-----------------------------------------------------------------------------
(* The application under the supervisor's messages *)

\* what the child processes of the application's executors do: each writes
\* one line; bun install succeeds, bun run <task> succeeds or fails
Ran(exit) ==
    [spawned |-> TRUE, stdout |-> <<[text |-> <<"x">>, utf8 |-> TRUE]>>,
     stderr |-> <<>>, exit |-> exit]
InstallOutcomes == {Ran("success")}
RunOutcomes == {Ran("success"), Ran("failure")}

Next ==
    \/ \E p \in ProjIdx, t \in TaskIdx : StartTask(p, t)
    \/ \E p \in ProjIdx, t \in TaskIdx : StopTask(p, t)
    \/ \E e \in execs, o \in InstallOutcomes : ExecInstall(e, o)
    \/ \E e \in execs, o \in RunOutcomes : ExecRun(e, o)
    \/ \E e \in execs : TaskCompleted(e)
    \/ \E result \in DownloadResults : BunReady(result)
    \/ \E idx \in ProjIdx : RemoveProject(idx)
    \/ \E idx \in ProjIdx : ProjectDragStart(idx)
    \/ ProjectDragEnd
    \/ \E idx \in ProjIdx : ProjectHovered(idx)
    \/ \E d \in Dirs : FileChanged(d)
    \/ WatcherStart

Spec == Init /\ [][Next]_vars

-----------------------------------------------------------------------------
(* Process supervisor *)

\* C1: in every reachable state at most one live execution (a spawned
\* invocation whose completion has not been handled) exists for any one
\* (project, task) position.
C1_SingleFlight ==
    \A e1 \in execs, e2 \in execs :
        (e1.proj_idx = e2.proj_idx /\ e1.task_idx = e2.task_idx) => e1 = e2

\* C2: a StartTask for a task that is already running changes nothing: the
\* tasks (running, failed, logs), the handles and the live executions stay
\* as they were and nothing is spawned.
C2_StartWhileRunningIsNoOp ==
    [][\A p \in ProjIdx, t \in TaskIdx :
          (IsRunning(p, t) /\ StartTask(p, t))
              => UNCHANGED <<projects, processes, execs>>]_vars

\* C3: a StopTask for a task that is running, its invocation started and not
\* yet completed, removes the handle, sets running to false and appends
\* exactly one "stopped" line to the task's log.
C3_StopTakesEffect ==
    [][\A p \in ProjIdx, t \in TaskIdx :
          (IsRunning(p, t) /\ LiveAt(p, t) # {} /\ StopTask(p, t))
              => /\ <<p, t>> \notin processes'
                 /\ HasTask(p, t)'
                 /\ ~TaskAt(p, t)'.running
                 /\ TaskAt(p, t)'.logs =
                        Append(TaskAt(p, t).logs, StoppedLine(TaskAt(p, t).name))]_vars

\* C4: stop and completion of one invocation exclude each other: once a
\* StopTask was handled for a running task whose invocation is live, the later
\* TaskCompleted of that invocation appends no line and changes no running or
\* failed flag.
C4_CompletionAfterStopIsNoOp ==
    [][\A e \in execs :
          (e.stop_issued /\ TaskCompleted(e)) => UNCHANGED projects]_vars

\* C5: a RemoveProject for a project one of whose tasks has running = true is
\* rejected: the project list, every task and the selection stay as they were.
C5_RemoveRunningRejected ==
    [][\A idx \in ProjIdx :
          (AnyRunning(projects, idx) /\ RemoveProject(idx))
              => UNCHANGED <<projects, selected_task>>]_vars

\* C10: a StartTask for an existing task that is not running, with the bun
\* executable available, spawns one executor for that position, records a
\* handle for the position in the supervisor's map, sets running and replaces
\* the log by the one "starting" line.
C10_StartSpawnsAndRecords ==
    [][\A p \in ProjIdx, t \in TaskIdx :
          (IsSome(bun_path) /\ HasTask(p, t) /\ ~IsRunning(p, t) /\ StartTask(p, t))
              => /\ \E e \in execs' \ execs :
                        /\ execs' = execs \cup {e}
                        /\ e.proj_idx = p /\ e.task_idx = t /\ e.phase = "install"
                 /\ <<p, t>> \in processes'
                 /\ TaskAt(p, t)'.running
                 /\ TaskAt(p, t)'.logs = <<StartingLine(TaskAt(p, t).name)>>]_vars

-----------------------------------------------------------------------------
(* Two-phase executor: one invocation, its child processes writing any     *)
(* lines within MaxExecLines and ending in any way                         *)

ExecInit ==
    /\ InitWith(<<LoadedProject("pkg", "d1", <<"a">>)>>, CHOOSE files \in InitFs : TRUE, TRUE)

\* the lines an invocation's install child wrote, once it ran
LinesUsed(e) == IF IsSome(e.install) THEN LinesWritten(Unwrap(e.install)) ELSE 0

ExecOutcomes == PhaseOutcomes(MaxExecLines)

ExecNext ==
    \/ execs = {} /\ started = 0 /\ StartTask(0, 0)
    \/ \E e \in execs :
          e.phase = "install" /\ \E o \in ExecOutcomes : ExecInstall(e, o)
    \/ \E e \in execs :
          e.phase = "run" /\ \E o \in ExecOutcomes :
              LinesUsed(e) + LinesWritten(o) <= MaxExecLines /\ ExecRun(e, o)
    \/ \E e \in execs : TaskCompleted(e)

ExecSpec == ExecInit /\ [][ExecNext]_vars

\* the texts next_line() hands out before end of input or the first read error
ReadLines(stream) ==
    LET bad == {i \in 1..Len(stream) : ~stream[i].utf8}
        n == IF bad = {} THEN Len(stream) ELSE Min(bad) - 1
    IN  [i \in 1..n |-> stream[i].text]

\* every text the child wrote to the pipe
WrittenTexts(stream) == [i \in 1..Len(stream) |-> stream[i].text]

Tagged(lines) == [i \in 1..Len(lines) |-> <<"[STDERR]">> \o lines[i]]

Finished == {e \in execs : e.phase = "done"}

\* C6 as claimed: the log an invocation produces is exactly install-stdout,
\* install-stderr, run-stdout, run-stderr, in that order and nothing else.
C6_LogIsStreamsOnly ==
    \A e \in Finished :
        e.output_lines =
            ((WrittenTexts(Unwrap(e.install).stdout) \o
              WrittenTexts(Unwrap(e.install).stderr)) \o
             WrittenTexts(Unwrap(e.run).stdout)) \o
            WrittenTexts(Unwrap(e.run).stderr)

\* C6 amended: the log an invocation produces is exactly the "Running bun
\* install" line, the lines read from install-stdout, then from
\* install-stderr, one install status line, the "Running task" line, the
\* lines read from run-stdout, then those read from run-stderr, each prefixed
\* "[STDERR]"; a phase whose process could not be spawned contributes one
\* spawn-failure line in place of its streams and status.  The install
\* phase's exit changes only the install status line.
C6_LogIsStreamsBetweenMarkers ==
    \A e \in Finished :
        LET i == Unwrap(e.install)
            r == Unwrap(e.run)
            install_part ==
                IF i.spawned
                THEN (ReadLines(i.stdout) \o ReadLines(i.stderr)) \o
                     <<IF i.exit = "success" THEN DepsInstalledLine
                       ELSE InstallErrorsLine>>
                ELSE <<InstallSpawnFailedLine>>
            run_part ==
                IF r.spawned
                THEN ReadLines(r.stdout) \o Tagged(ReadLines(r.stderr))
                ELSE <<FailedToStartLine>>
        IN  e.output_lines =
                ((<<RunningInstallLine>> \o install_part) \o
                 <<RunningTaskLine(e.task_name)>>) \o run_part

\* an invocation whose install child failed and whose four streams all carry
\* a line has finished
C6_Witness ==
    \E e \in Finished :
        /\ Unwrap(e.install).spawned /\ Unwrap(e.install).exit = "failure"
        /\ Unwrap(e.run).spawned
        /\ Unwrap(e.install).stdout # <<>> /\ Unwrap(e.install).stderr # <<>>
        /\ Unwrap(e.run).stdout # <<>> /\ Unwrap(e.run).stderr # <<>>
        /\ \A st \in {Unwrap(e.install).stdout, Unwrap(e.install).stderr,
                      Unwrap(e.run).stdout, Unwrap(e.run).stderr} :
               \A k \in 1..Len(st) : st[k].utf8

\* whether the run phase's child was spawned and exited with success
RunExitedWithSuccess(e) ==
    IsSome(e.run) /\ Unwrap(e.run).spawned /\ Unwrap(e.run).exit = "success"

InstallFailed(e) ==
    IsSome(e.install)
    /\ (~Unwrap(e.install).spawned \/ Unwrap(e.install).exit # "success")

\* C7: a failed install phase (non-zero exit or spawn failure) never keeps
\* the run phase from being attempted, and after completion the task's failed
\* flag is the negation of the run phase's exit success alone.
C7_FailedFollowsRunOnly ==
    /\ \A e \in execs :
          InstallFailed(e) => (e.phase = "run" \/ (e.phase = "done" /\ IsSome(e.run)))
    /\ (last.op = "TaskCompleted" /\ last.applied)
          => /\ IsSome(last.e.run)
             /\ TaskAt(last.e.proj_idx, last.e.task_idx).failed
                    = ~RunExitedWithSuccess(last.e)

\* an invocation whose install failed and whose run succeeded has completed
C7_Witness ==
    /\ last.op = "TaskCompleted" /\ last.applied
    /\ InstallFailed(last.e)
    /\ RunExitedWithSuccess(last.e)
    /\ ~TaskAt(last.e.proj_idx, last.e.task_idx).failed

-----------------------------------------------------------------------------
(* Registry and selection: the project list under create, select and       *)
(* drag-reorder                                                            *)

RegistryInit ==
    InitWith(<<LoadedProject("pkg", "d1", <<"a">>), LoadedProject("scratch", "", <<"Task 1">>)>>,
             CHOOSE files \in InitFs : TRUE, TRUE)

RegistryNext ==
    \/ CreateProject
    \/ \E p \in ProjIdx, t \in TaskIdx : SelectTask(p, t)
    \/ \E idx \in ProjIdx : ProjectDragStart(idx)
    \/ ProjectDragEnd
    \/ \E idx \in ProjIdx : ProjectHovered(idx)

RegistrySpec == RegistryInit /\ [][RegistryNext]_vars

\* a ProjectHovered(to_idx) that moves the dragged project
Reorders(to_idx) ==
    /\ IsSome(dragging_project)
    /\ Unwrap(dragging_project) # to_idx
    /\ Unwrap(dragging_project) < Len(projects)
    /\ to_idx < Len(projects)
    /\ IsSome(selected_task)
    /\ ProjectHovered(to_idx)

\* C8 as claimed: moving a project from A to B, a selection at A becomes B, a
\* selection strictly between A and B shifts by one against the move, every
\* other selection is unchanged; the task component never changes.
C8_OnlyStrictlyBetweenShift ==
    [][\A B \in ProjIdx :
          Reorders(B) =>
              LET A == Unwrap(dragging_project)
                  i == Unwrap(selected_task)[1]
              IN  selected_task' =
                      Some(<<IF i = A THEN B
                              ELSE IF A < i /\ i < B THEN i - 1
                              ELSE IF B < i /\ i < A THEN i + 1
                              ELSE i,
                             Unwrap(selected_task)[2]>>)]_vars

\* C8 amended: moving a project from A to B, a selection at A becomes B; a
\* selection at an index i with A < i <= B (a move towards the end) becomes
\* i - 1, one with B <= i < A (a move towards the front) becomes i + 1, so the
\* index B itself shifts too; every other selection is unchanged; the task
\* component never changes.  The selection thereby stays on the same project.
C8_ReorderRemapsSelection ==
    [][\A B \in ProjIdx :
          Reorders(B) =>
              LET A == Unwrap(dragging_project)
                  i == Unwrap(selected_task)[1]
              IN  /\ selected_task' =
                        Some(<<IF i = A THEN B
                                ELSE IF A < i /\ i <= B THEN i - 1
                                ELSE IF B <= i /\ i < A THEN i + 1
                                ELSE i,
                               Unwrap(selected_task)[2]>>)
                  /\ i < Len(projects)
                        => projects'[Unwrap(selected_task')[1] + 1] = projects[i + 1]]_vars

\* a reorder has moved a project across a selected one and onto another: the
\* selection was strictly between the two indices and has shifted
C8_Witness ==
    /\ last.op = "ProjectHovered"
    /\ IsSome(last.sel)
    /\ \/ last.from < Unwrap(last.sel)[1] /\ Unwrap(last.sel)[1] < last.to
       \/ last.to < Unwrap(last.sel)[1] /\ Unwrap(last.sel)[1] < last.from
    /\ IsSome(selected_task)
    /\ Unwrap(selected_task)[1] # Unwrap(last.sel)[1]
    /\ Unwrap(selected_task)[2] = Unwrap(last.sel)[2]

\* the project a reference designates, if any
Designated(projs, ref) ==
    IF IsSome(ref) /\ Unwrap(ref) < Len(projs) THEN Some(projs[Unwrap(ref) + 1])
    ELSE None

SelectedProject(projs, sel) ==
    Designated(projs, IF IsSome(sel) THEN Some(Unwrap(sel)[1]) ELSE None)

\* C25: a reorder moving the project at A to B leaves the selection on the
\* project it designated before, with the task index it had; its project
\* index is B if it was A, one less if A < B and it was in (A, B], one more if
\* A > B and it was in [B, A), and what it was otherwise.
C25_SelectionFollowsProject ==
    [][\A B \in ProjIdx :
          Reorders(B) =>
              LET A == Unwrap(dragging_project)
                  i == Unwrap(selected_task)[1]
                  j == Unwrap(selected_task')[1]
              IN  /\ IsSome(selected_task')
                  /\ SelectedProject(projects', selected_task')
                         = SelectedProject(projects, selected_task)
                  /\ Unwrap(selected_task')[2] = Unwrap(selected_task)[2]
                  /\ \/ i = A /\ j = B
                     \/ A < B /\ A < i /\ i <= B /\ j = i - 1
                     \/ A > B /\ B <= i /\ i < A /\ j = i + 1
                     \/ i # A /\ ~(A < B /\ A < i /\ i <= B)
                              /\ ~(A > B /\ B <= i /\ i < A) /\ j = i]_vars

\* a reorder has dropped the dragged project on the index of the selected
\* one, and the selection has moved by one with its project
C25_Witness ==
    /\ last.op = "ProjectHovered"
    /\ IsSome(last.sel) /\ Unwrap(last.sel)[1] = last.to
    /\ IsSome(selected_task)
    /\ Unwrap(selected_task)[1] # last.to
    /\ SelectedProject(projects, selected_task)
           = SelectedProject(MoveProject(projects, last.to, last.from), last.sel)
    /\ IsSome(SelectedProject(projects, selected_task))

\* C26: during a drag, a ProjectHovered(B) that moves the dragged project from
\* A puts the drag reference on B, where that project now is; a
\* ProjectHovered that moves nothing leaves the reference and the list alone;
\* so the reference stays on one project over any sequence of hovers.
C26_DragFollowsProject ==
    [][\A B \in ProjIdx :
          (IsSome(dragging_project) /\ ProjectHovered(B))
              => /\ Designated(projects', dragging_project')
                        = Designated(projects, dragging_project)
                 /\ IF Unwrap(dragging_project) # B
                       /\ Unwrap(dragging_project) < Len(projects)
                       /\ B < Len(projects)
                    THEN dragging_project' = Some(B)
                    ELSE UNCHANGED <<dragging_project, projects>>]_vars

\* the project first in the list has been dragged to the end in two hovers,
\* and the drag reference is on it
C26_Witness ==
    /\ last.op = "ProjectHovered" /\ last.from = 1 /\ last.to = 2
    /\ dragging_project = Some(2)
    /\ Len(projects) = 3 /\ projects[3].name = "pkg"

-----------------------------------------------------------------------------
(* File-watch reconciler: one project whose manifest changes on disk while *)
(* its tasks are started and complete                                      *)

ReconcileInit ==
    InitWith(<<LoadedProject("pkg", "d1", <<"a">>)>>, CHOOSE files \in InitFs : TRUE, TRUE)

ReconcileNext ==
    \/ WatcherStart
    \/ \E d \in Dirs, m \in Manifests : FsWrite(d, m)
    \/ \E d \in Dirs : FileChanged(d)
    \/ \E t \in TaskIdx : StartTask(0, t)
    \/ \E e \in execs, o \in InstallOutcomes : ExecInstall(e, o)
    \/ \E e \in execs, o \in RunOutcomes : ExecRun(e, o)
    \/ \E e \in execs : TaskCompleted(e)

ReconcileSpec == ReconcileInit /\ [][ReconcileNext]_vars

\* the names of a task list
TaskNames(tasks) == {tasks[k].name : k \in 1..Len(tasks)}

\* new is the reconciliation of old against the script names S
ReconciledByName(old, new, S) ==
    /\ TaskNames(new) = S
    /\ Len(new) = Cardinality(S)
    /\ \A k \in 1..Len(new) :
          IF new[k].name \in TaskNames(old)
          THEN \E j \in 1..Len(old) :
                  /\ old[j].name = new[k].name
                  /\ new[k].running = old[j].running
                  /\ new[k].logs = old[j].logs
          ELSE /\ ~new[k].running
               /\ new[k].logs = <<ReadyLine(new[k].name)>>

\* C9: when a FileChanged is handled for a project whose manifest parses and
\* has a scripts object with name set S, the project's task list afterwards
\* has exactly the names S, each once; a name that was in the prior list keeps
\* its running flag and log, a new name has running = false and the one
\* "ready" line, and a prior name not in S is gone, running or not.
C9_ReconcileByName ==
    [][\A d \in Dirs :
          (/\ FileChanged(d)
           /\ IsSome(Parsed(d))
           /\ IsSome(Unwrap(Parsed(d)).scripts)
           /\ \E i \in 1..Len(projects) : projects[i].path = d)
              => LET i == Min({j \in 1..Len(projects) : projects[j].path = d})
                     scripts == Unwrap(Unwrap(Parsed(d)).scripts)
                 IN  ReconciledByName(projects[i].tasks, projects'[i].tasks,
                                      {scripts[k] : k \in 1..Len(scripts)})]_vars

\* a reconciliation has kept a running task by name, dropped a running task
\* and added a new one
C9_Witness ==
    /\ last.op = "FileChanged"
    /\ \E i \in 1..Len(last.old) :
          /\ last.old[i].path = last.dir
          /\ \E j \in 1..Len(last.old[i].tasks) :
                /\ last.old[i].tasks[j].running
                /\ last.old[i].tasks[j].name \notin TaskNames(projects[i].tasks)
          /\ \E k \in 1..Len(projects[i].tasks) :
                /\ projects[i].tasks[k].running
                /\ projects[i].tasks[k].logs # <<ReadyLine(projects[i].tasks[k].name)>>
                /\ projects[i].tasks[k].name \in TaskNames(last.old[i].tasks)
          /\ \E k \in 1..Len(projects[i].tasks) :
                projects[i].tasks[k].name \notin TaskNames(last.old[i].tasks)

\* C28: a FileChanged handled while the manifest is missing or is not JSON
\* leaves every project's task list (names, order, running, failed, logs) as
\* it was.
C28_UnparsableManifestKeepsTasks ==
    [][\A d \in Dirs :
          (~IsSome(Parsed(d)) /\ FileChanged(d))
              => /\ Len(projects') = Len(projects)
                 /\ \A i \in 1..Len(projects) :
                        projects'[i].tasks = projects[i].tasks]_vars

\* a FileChanged has just been handled with a manifest that is not JSON, for
\* a project whose task was running with its log, and the task is as it was
C28_Witness ==
    /\ last.op = "FileChanged"
    /\ fs[last.dir].kind = "invalid"
    /\ \E i \in 1..Len(projects) :
           /\ projects[i].path = last.dir
           /\ projects[i].tasks = last.old[i].tasks
           /\ \E t \in 1..Len(projects[i].tasks) :
                  /\ projects[i].tasks[t].running
                  /\ Len(projects[i].tasks[t].logs) > 0

-----------------------------------------------------------------------------
(* Process supervisor: completion, flags and the runtime binary, under the *)
(* application's messages (Spec)                                           *)

\* the log of a task begins with its "starting" line
BeginsWithStarting(task) ==
    task.logs # <<>> /\ task.logs[1] = StartingLine(task.name)

\* what a TaskCompleted of invocation e does to the task at e's position
CompletionRecorded(e) ==
    LET old == TaskAt(e.proj_idx, e.task_idx)
        new == TaskAt(e.proj_idx, e.task_idx)'
    IN  /\ <<e.proj_idx, e.task_idx>> \notin processes'
        /\ ~new.running
        /\ new.failed = ~e.success
        /\ new.logs = (old.logs \o e.output_lines)
                          \o <<StatusLine(old.name, e.success)>>

\* C11 as claimed: on completion of an invocation that was not stopped, the
\* handle is gone, running is false, failed is the negation of success, and
\* the log is the log before completion, which begins with the "starting"
\* line, then the captured log, then the one status line.
C11_CompletionLogBeginsWithStarting ==
    [][\A e \in execs :
          (TaskCompleted(e) /\ HasTask(e.proj_idx, e.task_idx))
              => /\ CompletionRecorded(e)
                 /\ BeginsWithStarting(TaskAt(e.proj_idx, e.task_idx))]_vars

\* C11 amended: when the TaskCompleted of an invocation is handled and a task
\* exists at the invocation's position, no handle is held for the position,
\* that task's running flag is false, its failed flag is the negation of the
\* success reported, and its log is its log before the step, then the
\* captured log, then the one status line; the log before the step begins
\* with the "starting" line whenever that task still had running = true, and
\* need not when a reorder, a removal or a reconciliation has put another
\* task at the position.
C11_CompletionRecordsOutcome ==
    [][\A e \in execs :
          (TaskCompleted(e) /\ HasTask(e.proj_idx, e.task_idx))
              => /\ CompletionRecorded(e)
                 /\ TaskAt(e.proj_idx, e.task_idx).running
                        => BeginsWithStarting(TaskAt(e.proj_idx, e.task_idx))]_vars

\* an invocation that failed has completed on the task it was started for:
\* starting line, captured log, "failed"
C11_Witness ==
    /\ last.op = "TaskCompleted" /\ last.applied /\ ~last.e.success
    /\ HasTask(last.e.proj_idx, last.e.task_idx)
    /\ LET task == TaskAt(last.e.proj_idx, last.e.task_idx)
       IN  /\ ~task.running /\ task.failed
           /\ task.name = last.e.task_name
           /\ task.logs = (<<StartingLine(task.name)>> \o last.e.output_lines)
                              \o <<StatusLine(task.name, FALSE)>>

\* C12: in every reachable state, a task with running = true has an execution
\* handle held in the supervisor's map for its (project, task) position.
C12_NoOrphanRunning ==
    \A p \in ProjIdx, t \in TaskIdx :
        IsRunning(p, t) => <<p, t>> \in processes

\* the failed flags of a project list, position by position
FailedFlags(projs) ==
    [i \in 1..Len(projs) |->
        [k \in 1..Len(projs[i].tasks) |-> projs[i].tasks[k].failed]]

\* C14: a task's failed flag changes only at two events: the completion of an
\* invocation at its position sets it to the negation of success, and a start
\* of the task clears it; a stop changes no failed flag and a reconciliation
\* keeps the failed flag of every task it keeps by name.
C14_FailedSetAtCompletionClearedAtStart ==
    [][/\ \A p \in ProjIdx, t \in TaskIdx :
             (IsSome(bun_path) /\ HasTask(p, t) /\ StartTask(p, t))
                 => FailedFlags(projects') =
                        [FailedFlags(projects) EXCEPT ![p + 1][t + 1] = FALSE]
       /\ \A e \in execs :
             (TaskCompleted(e) /\ HasTask(e.proj_idx, e.task_idx))
                 => FailedFlags(projects') =
                        [FailedFlags(projects)
                            EXCEPT ![e.proj_idx + 1][e.task_idx + 1] = ~e.success]
       /\ \A p \in ProjIdx, t \in TaskIdx :
             StopTask(p, t) => FailedFlags(projects') = FailedFlags(projects)
       /\ \A d \in Dirs :
             FileChanged(d)
                 => \A i \in 1..Len(projects) :
                       \A k \in 1..Len(projects'[i].tasks) :
                          \A j \in 1..Len(projects[i].tasks) :
                             projects[i].tasks[j].name = projects'[i].tasks[k].name
                                 => projects'[i].tasks[k].failed
                                        = projects[i].tasks[j].failed]_vars

\* C15: while the binary is unavailable at most one download is in flight,
\* the in-flight marker is set exactly while one is, and a StartTask handled
\* while one is in flight starts no download and changes no task, handle or
\* executor.
C15_SingleAcquisition ==
    /\ [](downloads <= 1 /\ (bun_downloading <=> downloads = 1))
    /\ [][\A p \in ProjIdx, t \in TaskIdx :
             (~IsSome(bun_path) /\ bun_downloading /\ StartTask(p, t))
                 => UNCHANGED <<projects, processes, execs, downloads,
                                bun_downloading>>]_vars

\* a start request without the binary has put a download in flight
C15_Witness ==
    /\ ~IsSome(bun_path) /\ bun_downloading /\ downloads = 1
    /\ last.op = "StartTask" /\ last.spawned = 0

-----------------------------------------------------------------------------
(* Acquisition of the runtime binary: two projects, the binary not cached; *)
(* the download future and the executors run to their end, the user may    *)
(* stop issuing commands at any time                                       *)

AcquireInit ==
    InitWith(<<LoadedProject("pkg", "d1", <<"a">>), LoadedProject("scratch", "", <<"Task 1">>)>>,
             CHOOSE files \in InitFs : TRUE, FALSE)

DownloadEnds == \E result \in DownloadResults : BunReady(result)
ExecutorSteps ==
    \/ \E e \in execs, o \in InstallOutcomes : ExecInstall(e, o)
    \/ \E e \in execs, o \in RunOutcomes : ExecRun(e, o)
CompletionHandled == \E e \in execs : TaskCompleted(e)

AcquireNext ==
    \/ \E p \in ProjIdx, t \in TaskIdx : StartTask(p, t)
    \/ DownloadEnds
    \/ ExecutorSteps
    \/ CompletionHandled

AcquireSpec ==
    /\ AcquireInit
    /\ [][AcquireNext]_vars
    /\ WF_vars(DownloadEnds)
    /\ WF_vars(ExecutorSteps)
    /\ WF_vars(CompletionHandled)

\* a StartTask for an existing task has just started the download
Deferred(p, t) ==
    /\ last.op = "StartTask" /\ last.spawned = 0
    /\ last.proj_idx = p /\ last.task_idx = t
    /\ HasTask(p, t)

\* C16: a StartTask for an existing task that starts the download is not
\* lost: unless the download fails, the task is eventually running, with no
\* further command.
C16_DeferredStartHappens ==
    \A p \in ProjIdx, t \in TaskIdx :
        Deferred(p, t) ~> (IsRunning(p, t)
                           \/ (last.op = "BunReady" /\ last.result # "installed"))

\* C17: when the download fails, no task changes (the task whose start
\* triggered it stays not running), no download is in flight, the in-flight
\* marker is cleared and the binary is still unavailable, so that the next
\* StartTask starts a download.
C17_FailedAcquisitionCanBeRetried ==
    [][/\ \A result \in DownloadResults \ {"installed"} :
             BunReady(result)
                 => /\ projects' = projects
                    /\ downloads' = 0 /\ ~bun_downloading'
                    /\ ~IsSome(bun_path')
       /\ \A p \in ProjIdx, t \in TaskIdx :
             (last.op = "BunReady" /\ last.result # "installed" /\ StartTask(p, t))
                 => downloads' = 1 /\ bun_downloading']_vars

-----------------------------------------------------------------------------
(* The watch session while projects are imported and removed: the          *)
(* subscription stream is polled for as long as the application runs       *)

WatchInit ==
    \E config \in {<<LoadedProject("scratch", "", <<"Task 1">>)>>,
                   <<LoadedProject("pkg", "d1", <<"a">>),
                     LoadedProject("scratch", "", <<"Task 1">>)>>} :
        InitWith(config, CHOOSE files \in InitFs : TRUE, TRUE)

WatchNext ==
    \/ \E pick \in Picks : ImportProjectSelected(pick)
    \/ \E idx \in ProjIdx : HasProject(idx) /\ RemoveProject(idx)
    \/ WatcherStart
    \/ \E d \in Dirs, m \in Manifests : FsWrite(d, m)
    \/ \E d \in Dirs : FileChanged(d)

WatchSpec == WatchInit /\ [][WatchNext]_vars /\ WF_vars(WatcherStart)

\* some listed project has the existing directory d as its path
Tracked(d) == DirExists(d) /\ \E i \in 1..Len(projects) : projects[i].path = d

\* C18: the watch follows the tracked paths: a directory that is the path of
\* a listed project is eventually watched (or no longer tracked), and a
\* watched directory that is no project's path any more is eventually released
\* (or tracked again).
C18_WatchFollowsPaths ==
    \A d \in Dirs :
        /\ Tracked(d) ~> (d \in watched \/ ~Tracked(d))
        /\ (d \in watched /\ ~Tracked(d)) ~> (d \notin watched \/ Tracked(d))

\* C20: when a FileChanged or a RefreshProjects has been handled, every
\* project is hidden exactly if no package.json exists at its path at that
\* moment, whatever the flag was before.
C20_VisibilityFollowsManifest ==
    [][((\E d \in Dirs : FileChanged(d)) \/ WatcherStart)
          => \A i \in 1..Len(projects') :
                 projects'[i].hidden = ~PackageJsonExists(projects'[i].path)]_vars

\* a FileChanged has just been handled and it flipped the flag of a project,
\* which now agrees with the disk
C20_Witness ==
    /\ last.op = "FileChanged"
    /\ Len(last.old) = Len(projects)
    /\ \E i \in 1..Len(projects) :
           /\ projects[i].hidden # last.old[i].hidden
           /\ projects[i].hidden = ~PackageJsonExists(projects[i].path)

-----------------------------------------------------------------------------
(* The user's edits of the registry together with the file watcher: the    *)
(* view offers select, drag and remove only for rows that exist            *)

EditInit ==
    InitWith(<<LoadedProject("pkg", "d1", <<"a">>), LoadedProject("scratch", "", <<"Task 1">>)>>,
             CHOOSE files \in InitFs : TRUE, TRUE)

\* the manifests written while the user edits: with one script or with two
EditManifests ==
    {Manifest(Some("pkg"), Some(<<"a", "b">>)), Manifest(Some("pkg"), Some(<<"b">>))}

EditNext ==
    \/ CreateProject
    \/ \E idx \in ProjIdx : HasProject(idx) /\ RemoveProject(idx)
    \/ \E p \in ProjIdx, t \in TaskIdx : HasTask(p, t) /\ SelectTask(p, t)
    \/ \E idx \in ProjIdx : HasProject(idx) /\ ProjectDragStart(idx)
    \/ ProjectDragEnd
    \/ \E idx \in ProjIdx : HasProject(idx) /\ ProjectHovered(idx)
    \/ WatcherStart
    \/ \E d \in Dirs, m \in EditManifests : FsWrite(d, m)
    \/ \E d \in Dirs : FileChanged(d)

EditSpec == EditInit /\ [][EditNext]_vars

\* C13: in every state the registry's mutations lead to, the selection is
\* absent or names an existing task of an existing project, and the drag
\* reference is absent or names an existing project.
C13_ReferencesValid ==
    /\ IsSome(selected_task) => HasTask(Unwrap(selected_task)[1], Unwrap(selected_task)[2])
    /\ IsSome(dragging_project) => HasProject(Unwrap(dragging_project))

-----------------------------------------------------------------------------
(* Stop commands that reach a task which is not running (IdleStopSpec): the *)
(* Stop button is shown for a running task only, so such a command is one   *)
(* that was pressed before the task stopped running and handled after       *)

IdleStopInit ==
    InitWith(<<LoadedProject("pkg", "d1", <<"a">>), LoadedProject("scratch", "", <<"Task 1">>)>>,
             CHOOSE files \in InitFs : TRUE, TRUE)

IdleStopNext ==
    \/ \E p \in ProjIdx, t \in TaskIdx : StartTask(p, t)
    \/ \E p \in ProjIdx, t \in TaskIdx : ~IsRunning(p, t) /\ StopTask(p, t)
    \/ ExecutorSteps
    \/ CompletionHandled

IdleStopSpec == IdleStopInit /\ [][IdleStopNext]_vars

\* C19: a StopTask for a task that is not running (or a position with no
\* task) finds no handle, so no process is signalled, and it changes no task
\* (running, failed, log), no handle and nothing else the application holds.
C19_StopWhileIdleIsNoOp ==
    [][\A p \in ProjIdx, t \in TaskIdx :
          (~IsRunning(p, t) /\ StopTask(p, t))
              => /\ ~handle_held(p, t)
                 /\ UNCHANGED appvars]_vars

\* a stop was handled at the position of an idle task while an invocation
\* started there was still live, and the task is idle still, with no handle
\* and no "stopped" line
C19_Witness ==
    \E e \in execs :
        /\ e.stop_issued
        /\ HasTask(e.proj_idx, e.task_idx)
        /\ ~IsRunning(e.proj_idx, e.task_idx)
        /\ ~handle_held(e.proj_idx, e.task_idx)
        /\ \A i \in 1..Len(TaskAt(e.proj_idx, e.task_idx).logs) :
               TaskAt(e.proj_idx, e.task_idx).logs[i]
                   # StoppedLine(TaskAt(e.proj_idx, e.task_idx).name)

-----------------------------------------------------------------------------
(* One phase step by step (PipeSpec): the child process writes to two      *)
(* pipes of bounded capacity and exits, two spawned tasks drain the pipes   *)
(* and the executor waits for the exit, then joins the two tasks            *)

MaxChildWrites == 2  \* lines one child process writes
PipeCap == 1         \* lines a pipe holds before a write to it blocks

StreamNames == {"stdout", "stderr"}
PipeLines == {l \in WrittenLines : l.text = <<"x">>}

\* Ok(child) of Command::spawn with both pipes taken and both drain tasks
\* spawned.  writing: the write the child is in; pipe: the lines in each
\* pipe; written: every line that entered each pipe; drain: each drain
\* task's loop, "reading" or ended at "eof" or at a read "error", and with
\* it the read end of the pipe, open while reading; status: what
\* child.wait() returned
NewChild ==
    [writing |-> None, writes |-> 0, exited |-> FALSE, exit |-> "success",
     pipe |-> [s \in StreamNames |-> <<>>],
     written |-> [s \in StreamNames |-> <<>>],
     drain |-> [s \in StreamNames |-> "reading"],
     captured |-> [s \in StreamNames |-> <<>>],
     status |-> None]

\* drain loops that are polled only once wait() has returned, as futures
\* awaited after it would be: not what the source does, and
\* C24_DrainingCannotDeadlock tells the two apart
drain_after_wait(c) == IsSome(c.status)

\* tokio::spawn(async move { .. }): a drain task runs from its spawn on,
\* whatever the executor is waiting for
drain_task_runs(c) == TRUE

\* a phase handed on as soon as wait() has returned: not what the source
\* does, and C21_PhasesInOrder tells the two apart
handed_on_at_exit(c) == IsSome(c.status)

\* child.wait().await, then stdout_task.await, then stderr_task.await
phase_joined(c) ==
    IsSome(c.status) /\ \A s \in StreamNames : c.drain[s] # "reading"

\* what the phase's child did, as the executor's caller sees it
Outcome(c) ==
    [spawned |-> TRUE, stdout |-> c.written["stdout"],
     stderr |-> c.written["stderr"], exit |-> Unwrap(c.status)]

PipeStep(e, e2) ==
    /\ execs' = (execs \ {e}) \cup {e2}
    /\ UNCHANGED <<appvars, downloads, bun_cached, fs, watcher, watch_paths,
                   watched, started, last>>

\* Command::new(&bun_path).arg("install")...spawn()
SpawnInstall(e, ok) ==
    /\ e \in execs /\ e.phase = "install" /\ ~IsSome(e.child)
    /\ PipeStep(e, IF ok
                   THEN [e EXCEPT !.output_lines = <<RunningInstallLine>>,
                                  !.child = Some(NewChild)]
                   ELSE install_phase(e, NotSpawned))

\* Command::new(&bun_path).arg("run").arg(&task_name)...spawn()
SpawnRun(e, ok) ==
    /\ e \in execs /\ e.phase = "run" /\ ~IsSome(e.child)
    /\ PipeStep(e, IF ok
                   THEN [e EXCEPT !.output_lines = Append(@, RunningTaskLine(e.task_name)),
                                  !.child = Some(NewChild)]
                   ELSE run_phase(e, NotSpawned))

\* the child starts to write a line to one of its pipes
ChildBegin(e, s, l) ==
    /\ e \in execs /\ IsSome(e.child)
    /\ LET c == Unwrap(e.child)
       IN  /\ ~c.exited /\ ~IsSome(c.writing) /\ c.writes < MaxChildWrites
           /\ PipeStep(e, [e EXCEPT !.child = Some(
                  [c EXCEPT !.writing = Some([stream |-> s, line |-> l]),
                            !.writes = @ + 1])])

\* the write goes through once the pipe has room; on a pipe whose read end is
\* closed it fails (EPIPE), and the child goes on or is killed (SIGPIPE)
ChildFlush(e, killed) ==
    /\ e \in execs /\ IsSome(e.child)
    /\ LET c == Unwrap(e.child)
       IN  /\ ~c.exited /\ IsSome(c.writing)
           /\ LET w == Unwrap(c.writing)
              IN  IF c.drain[w.stream] = "reading"
                  THEN /\ ~killed
                       /\ Len(c.pipe[w.stream]) < PipeCap
                       /\ PipeStep(e, [e EXCEPT !.child = Some(
                              [c EXCEPT !.writing = None,
                                        !.pipe[w.stream] = Append(@, w.line),
                                        !.written[w.stream] = Append(@, w.line)])])
                  ELSE PipeStep(e, [e EXCEPT !.child = Some(
                              [c EXCEPT !.writing = None,
                                        !.exited = killed,
                                        !.exit = IF killed THEN "failure" ELSE @])])

\* the child exits, which closes the write ends of its pipes
ChildExit(e, exit) ==
    /\ e \in execs /\ IsSome(e.child)
    /\ LET c == Unwrap(e.child)
       IN  /\ ~c.exited /\ ~IsSome(c.writing)
           /\ PipeStep(e, [e EXCEPT !.child = Some(
                  [c EXCEPT !.exited = TRUE, !.exit = exit])])

\* one turn of while let Ok(Some(line)) = lines.next_line().await: a line is
\* captured, or the loop ends at a line that is not UTF-8 or at end of input
\* (the pipe empty and its write end closed); the task's end drops the reader
Drain(e, s) ==
    /\ e \in execs /\ IsSome(e.child)
    /\ LET c == Unwrap(e.child)
           tagged == e.phase = "run" /\ s = "stderr"
       IN  /\ c.drain[s] = "reading" /\ drain_task_runs(c)
           /\ IF c.pipe[s] # <<>>
              THEN PipeStep(e, [e EXCEPT !.child = Some(
                       IF Head(c.pipe[s]).utf8
                       THEN [c EXCEPT !.pipe[s] = Tail(@),
                                      !.captured[s] =
                                          Append(@, IF tagged
                                                    THEN StderrLine(Head(c.pipe[s]).text)
                                                    ELSE Head(c.pipe[s]).text)]
                       ELSE [c EXCEPT !.pipe[s] = <<>>, !.drain[s] = "error"])])
              ELSE /\ c.exited
                   /\ PipeStep(e, [e EXCEPT !.child = Some(
                          [c EXCEPT !.drain[s] = "eof"])])

\* child.wait().await returns once the child has exited
Wait(e, err) ==
    /\ e \in execs /\ IsSome(e.child)
    /\ LET c == Unwrap(e.child)
       IN  /\ c.exited /\ ~IsSome(c.status)
           /\ PipeStep(e, [e EXCEPT !.child = Some(
                  [c EXCEPT !.status = Some(IF err THEN "wait_error" ELSE c.exit)])])

\* the install phase's output and status line are appended
CollectInstall(e) ==
    /\ e \in execs /\ e.phase = "install" /\ IsSome(e.child)
    /\ LET c == Unwrap(e.child)
       IN  /\ phase_joined(c)
           /\ PipeStep(e, [e EXCEPT
                  !.output_lines =
                      (@ \o c.captured["stdout"]) \o c.captured["stderr"] \o
                      <<IF StatusSuccess(Outcome(c)) THEN DepsInstalledLine
                        ELSE InstallErrorsLine>>,
                  !.phase = "run",
                  !.install = Some(Outcome(c)),
                  !.child = None])

\* the run phase's output is appended and the future returns
CollectRun(e) ==
    /\ e \in execs /\ e.phase = "run" /\ IsSome(e.child)
    /\ LET c == Unwrap(e.child)
       IN  /\ phase_joined(c)
           /\ PipeStep(e, [e EXCEPT
                  !.output_lines = (@ \o c.captured["stdout"]) \o c.captured["stderr"],
                  !.success = StatusSuccess(Outcome(c)),
                  !.phase = "done",
                  !.run = Some(Outcome(c)),
                  !.child = None])

PipeInit ==
    InitWith(<<LoadedProject("pkg", "d1", <<"a">>)>>, CHOOSE files \in InitFs : TRUE, TRUE)

ExecutorTurn ==
    \/ \E e \in execs, ok \in BOOLEAN : SpawnInstall(e, ok)
    \/ \E e \in execs : CollectInstall(e)
    \/ \E e \in execs, ok \in BOOLEAN : SpawnRun(e, ok)
    \/ \E e \in execs : CollectRun(e)
ChildTurn ==
    \/ \E e \in execs, s \in StreamNames, l \in PipeLines : ChildBegin(e, s, l)
    \/ \E e \in execs, killed \in BOOLEAN : ChildFlush(e, killed)
    \/ \E e \in execs, exit \in {"success", "failure"} : ChildExit(e, exit)
DrainTurn(s) == \E e \in execs : Drain(e, s)
WaitTurn == \E e \in execs, err \in BOOLEAN : Wait(e, err)

PipeNext ==
    \/ execs = {} /\ started = 0 /\ StartTask(0, 0)
    \/ ExecutorTurn
    \/ ChildTurn
    \/ DrainTurn("stdout")
    \/ DrainTurn("stderr")
    \/ WaitTurn
    \/ CompletionHandled

\* the runtime polls every task that can make progress; a child that can
\* go on does, and exits
PipeSpec ==
    /\ PipeInit
    /\ [][PipeNext]_vars
    /\ WF_vars(ExecutorTurn)
    /\ WF_vars(ChildTurn)
    /\ WF_vars(DrainTurn("stdout"))
    /\ WF_vars(DrainTurn("stderr"))
    /\ WF_vars(WaitTurn)
    /\ WF_vars(CompletionHandled)

\* Idle (0), InstallPhase (1), RunPhase (2), Completed (3)
Stage(e) ==
    IF e.phase = "done" THEN 3
    ELSE IF e.phase = "run" THEN 2
    ELSE IF IsSome(e.child) THEN 1 ELSE 0

\* the invocation e after the step, if it is still there
After(e) == {e2 \in execs' : e2.id = e.id}

InstallNotSpawned(e) == IsSome(e.install) /\ ~Unwrap(e.install).spawned
RunNotSpawned(e) == IsSome(e.run) /\ ~Unwrap(e.run).spawned

\* C22: an invocation whose install process could not be spawned goes on to
\* the run phase, whose spawn is then attempted; an invocation whose run
\* process could not be spawned is over at once, with success = false and
\* the "[ERROR] Failed to start" line as the last line of its log.
C22_SpawnFailures ==
    /\ [](\A e \in execs :
            /\ InstallNotSpawned(e)
                  => (e.phase = "run" \/ (e.phase = "done" /\ IsSome(e.run)))
            /\ RunNotSpawned(e)
                  => /\ e.phase = "done" /\ ~e.success
                     /\ e.output_lines # <<>>
                     /\ e.output_lines[Len(e.output_lines)] = FailedToStartLine)
    /\ (\E e \in execs : InstallNotSpawned(e) /\ ~IsSome(e.run) /\ ~IsSome(e.child))
          ~> (\E e \in execs : InstallNotSpawned(e) /\ (IsSome(e.run) \/ IsSome(e.child)))

\* neither process of an invocation could be spawned, and it is over
C22_Witness ==
    \E e \in execs :
        /\ InstallNotSpawned(e) /\ RunNotSpawned(e)
        /\ e.phase = "done" /\ ~e.success

\* C23: when a phase's two captured sequences are handed on (wait() has
\* returned and both drain tasks are joined), the process has exited, both
\* drain loops have read their stream to end of input, and each sequence
\* holds every line the process wrote to that stream, in order.
C23_NothingMissing ==
    \A e \in execs :
        (IsSome(e.child) /\ phase_joined(Unwrap(e.child)))
            => LET c == Unwrap(e.child)
               IN  /\ c.exited
                   /\ \A s \in StreamNames :
                          /\ c.drain[s] = "eof"
                          /\ c.captured[s] =
                                 IF e.phase = "run" /\ s = "stderr"
                                 THEN Tagged(WrittenTexts(c.written[s]))
                                 ELSE WrittenTexts(c.written[s])

\* a phase's process is live or its output is not yet handed on
PhaseUnderWay == \E e \in execs : IsSome(e.child)
PhaseFinished ==
    \A e \in execs : IsSome(e.child) => phase_joined(Unwrap(e.child))

\* C24: with pipes that hold PipeCap lines, whatever a phase's process writes
\* to its two pipes and in whatever order, the phase finishes (wait() has
\* returned and both drain loops have ended), and every invocation that was
\* started has its completion handled.
C24_DrainingCannotDeadlock ==
    /\ PhaseUnderWay ~> PhaseFinished
    /\ (execs # {}) ~> (execs = {} /\ last.op = "TaskCompleted")

\* the completion of an invocation was handled whose run process wrote to
\* one pipe more lines than the pipe holds
C24_Witness ==
    /\ last.op = "TaskCompleted" /\ execs = {}
    /\ Unwrap(last.e.run).spawned
    /\ \/ Len(Unwrap(last.e.run).stdout) > PipeCap
       \/ Len(Unwrap(last.e.run).stderr) > PipeCap

-----------------------------------------------------------------------------
(* Removal (RemoveSpec): the user creates, selects and reorders, and        *)
(* removes projects; no row is clicked between a removal and the next       *)
(* change of the list                                                       *)

RemoveInit ==
    InitWith(<<LoadedProject("pkg", "d1", <<"a">>), LoadedProject("scratch", "", <<"Task 1">>)>>,
             CHOOSE files \in InitFs : TRUE, TRUE)

RemoveNext ==
    \/ CreateProject
    \/ /\ last.op # "RemoveProject"
       /\ \E p \in ProjIdx, t \in TaskIdx : HasTask(p, t) /\ SelectTask(p, t)
    \/ \E idx \in ProjIdx : HasProject(idx) /\ ProjectDragStart(idx)
    \/ ProjectDragEnd
    \/ \E idx \in ProjIdx : ProjectHovered(idx)
    \/ \E idx \in ProjIdx : RemoveProject(idx)

RemoveSpec == RemoveInit /\ [][RemoveNext]_vars

\* C27: removing the project at index I takes it out of the list; a selection
\* on a greater index is decremented and stays on its project with its task
\* index, a selection on a smaller index is unchanged, and a selection on I
\* is cleared.
C27_RemoveRemapsSelection ==
    [][\A I \in ProjIdx :
          (I < Len(projects) /\ RemoveProject(I))
              => /\ projects' = VecRemove(projects, I)
                 /\ IF ~IsSome(selected_task) THEN ~IsSome(selected_task')
                    ELSE LET i == Unwrap(selected_task)[1]
                             t == Unwrap(selected_task)[2]
                         IN  /\ i = I => selected_task' = None
                             /\ i > I => selected_task' = Some(<<i - 1, t>>)
                             /\ i < I => selected_task' = selected_task
                             /\ i # I => SelectedProject(projects', selected_task')
                                            = SelectedProject(projects, selected_task)]_vars

\* a project in front of the selected one has just been removed: the
\* selection is on the index of the removed project or behind it, where the
\* selected project now is
C27_Witness ==
    /\ last.op = "RemoveProject"
    /\ IsSome(selected_task)
    /\ Unwrap(selected_task)[1] >= last.idx
    /\ IsSome(SelectedProject(projects, selected_task))

-----------------------------------------------------------------------------
(* Reordering while tasks run (MoveSpec): two projects whose tasks have     *)
(* different names, started, dragged and completed                          *)

MoveInit ==
    InitWith(<<LoadedProject("pkg", "d1", <<"a">>), LoadedProject("scratch", "", <<"Task 1">>)>>,
             CHOOSE files \in InitFs : TRUE, TRUE)

MoveNext ==
    \/ \E p \in ProjIdx, t \in TaskIdx : StartTask(p, t)
    \/ \E idx \in ProjIdx : HasProject(idx) /\ ProjectDragStart(idx)
    \/ ProjectDragEnd
    \/ \E idx \in ProjIdx : ProjectHovered(idx)
    \/ ExecutorSteps
    \/ CompletionHandled

MoveSpec == MoveInit /\ [][MoveNext]_vars

\* the tasks an invocation was started for: in MoveSpec a task keeps its name
\* and no two tasks have one name
StartedFor(e) ==
    {pt \in ProjIdx \X TaskIdx :
        HasTask(pt[1], pt[2]) /\ TaskAt(pt[1], pt[2]).name = e.task_name}

\* C29: a reorder leaves every live invocation with the position it was
\* started at, and the completion of an invocation changes the task at that
\* position of the list as it is then, and no other task: not the task it was
\* started for, when that task's project has been moved.
C29_CompletionIsPositional ==
    /\ [][\A B \in ProjIdx :
             (IsSome(dragging_project) /\ ProjectHovered(B)) => execs' = execs]_vars
    /\ [][\A e \in execs :
             TaskCompleted(e) =>
                 /\ Len(projects') = Len(projects)
                 /\ \A i \in 1..Len(projects) :
                        /\ Len(projects'[i].tasks) = Len(projects[i].tasks)
                        /\ \A t \in 1..Len(projects[i].tasks) :
                               projects'[i].tasks[t] =
                                   IF i = e.proj_idx + 1 /\ t = e.task_idx + 1
                                   THEN CompletedTask(projects[i].tasks[t],
                                                      e.success, e.output_lines)
                                   ELSE projects[i].tasks[t]]_vars

\* the completion of an invocation has been recorded on a task of another
\* name, at the position the invocation was started at, while the task it was
\* started for is elsewhere and still marked running
C29_Witness ==
    /\ last.op = "TaskCompleted" /\ last.applied
    /\ TaskAt(last.e.proj_idx, last.e.task_idx).name # last.e.task_name
    /\ TaskAt(last.e.proj_idx, last.e.task_idx).logs # <<>>
    /\ \E pt \in StartedFor(last.e) :
           /\ pt # <<last.e.proj_idx, last.e.task_idx>>
           /\ TaskAt(pt[1], pt[2]).running

\* C30: as long as an invocation is live (its completion is not handled and
\* no stop was issued for it), the task it was started for is marked running.
C30_RunningWhileLive ==
    \A e \in execs :
        ~e.stop_issued => \E pt \in StartedFor(e) : TaskAt(pt[1], pt[2]).running

-----------------------------------------------------------------------------
(* Reconciliation among several projects (FrameSpec): a directory is        *)
(* imported again while its project is listed, rows are selected and        *)
(* dragged, and the manifest changes on disk                                *)

FrameInit ==
    InitWith(<<LoadedProject("pkg", "d1", <<"a">>), LoadedProject("scratch", "", <<"Task 1">>)>>,
             CHOOSE files \in InitFs : TRUE, TRUE)

\* what is written to the manifest: one script, two scripts, or no JSON
FrameManifests == EditManifests \cup {Unparsable}

FrameNext ==
    \/ \E pick \in Picks : ImportProjectSelected(pick)
    \/ \E p \in ProjIdx, t \in TaskIdx : HasTask(p, t) /\ SelectTask(p, t)
    \/ \E idx \in ProjIdx : HasProject(idx) /\ ProjectDragStart(idx)
    \/ ProjectDragEnd
    \/ WatcherStart
    \/ \E d \in Dirs, m \in FrameManifests : FsWrite(d, m)
    \/ \E d \in Dirs : FileChanged(d)

FrameSpec == FrameInit /\ [][FrameNext]_vars

\* the projects whose path is the directory d
AtPath(projs, d) == {i \in 1..Len(projs) : projs[i].path = d}

\* C31: a FileChanged for directory D changes the task list of no project but
\* the first one in the list whose path is D (of none, when no project has
\* path D), and leaves the number and order of the projects, every project's
\* name and path, the selection and the drag reference as they were.
C31_ReconcileFrame ==
    [][\A D \in Dirs :
          FileChanged(D)
              => /\ Len(projects') = Len(projects)
                 /\ \A i \in 1..Len(projects) :
                        /\ projects'[i].name = projects[i].name
                        /\ projects'[i].path = projects[i].path
                        /\ (AtPath(projects, D) = {} \/ i # Min(AtPath(projects, D)))
                              => projects'[i].tasks = projects[i].tasks
                 /\ UNCHANGED <<selected_task, dragging_project>>]_vars

\* a FileChanged has just been handled while two projects had its directory
\* as their path, a row was selected and a project was being dragged: the
\* first project's task list was regenerated, the second one's was not and
\* differs from the manifest's scripts
C31_Witness ==
    /\ last.op = "FileChanged"
    /\ IsSome(selected_task) /\ IsSome(dragging_project)
    /\ Cardinality(AtPath(projects, last.dir)) >= 2
    /\ LET first == Min(AtPath(projects, last.dir))
           second == Min(AtPath(projects, last.dir) \ {first})
           scripts == Unwrap(Unwrap(Parsed(last.dir)).scripts)
       IN  /\ IsSome(Parsed(last.dir))
           /\ projects[first].tasks # last.old[first].tasks
           /\ projects[second].tasks = last.old[second].tasks
           /\ TaskNames(projects[second].tasks)
                  # {scripts[k] : k \in 1..Len(scripts)}

=============================================================================
